---- MODULE Spec2Model ----
(***************************************************************************)
(* Model of src/inference.py (UIE span extraction).                        *)
(*                                                                         *)
(*   SpecAsm   the two-pointer Span Assembler, one comparison per step     *)
(*   SpecInf   inference(): encode, model call, row-by-row decode          *)
(*   SpecOrch  event_extract_example, information_extract_example and      *)
(*             ner_example run one after the other on one sentence         *)
(*                                                                         *)
(* Text is a sequence of one-character strings, so len() is Len, string    *)
(* concatenation is \o and slicing is computed.                            *)
(***************************************************************************)
EXTENDS Integers, Sequences, FiniteSets, TLC

VARIABLES
    \* --- Span Assembler (get_span) -------------------------------------
    start_ids,        \* ascending start positions of one row
    end_ids,          \* ascending end positions of one row
    start_pointer,    \* cursor into start_ids (0-based, as in the code)
    end_pointer,      \* cursor into end_ids
    emitted,          \* the Spans emitted so far, in emission order
    \* --- inference() ---------------------------------------------------
    prompts,          \* List[str]
    contents,         \* List[str]
    max_length,
    prob_threshold,   \* in tenths: 5 is 0.5
    output_sp,        \* start-probability table, one row per pair
    output_ep,        \* end-probability table
    offset_mapping,   \* one OffsetMap per pair
    hash_order,       \* iteration order of the Python set span_set
    row,              \* number of rows the decode loop has finished
    res,              \* the result list being built
    ipc,              \* position of the call
    err,              \* the exception the call ended with, or "none"
    encodeCalls,      \* tokenizer invocations so far
    modelCalls,       \* model invocations so far
    \* --- Schema Orchestrator --------------------------------------------
    sentence,
    schema,           \* two-level schema: sequence of <<key, attributes>>
    flat_schema,      \* flat schema: sequence of attribute names
    model_memo,       \* the model's answers so far, one per prompt
    fn,               \* the example function that is running
    opc,              \* position inside it
    ki,               \* index of the current top-level key (1-based)
    instances,        \* stage-one result of the current key
    ti,               \* number of instances of the current key handled
    rsp,              \* the result dict being built (insertion ordered)
    calls,            \* log of the inference calls of the running function
    done_rsp,         \* fn -> the dict it printed
    done_calls,       \* fn -> the calls it issued
    done_ret          \* fn -> the value it returned

varsAsm  == <<start_ids, end_ids, start_pointer, end_pointer, emitted>>
varsInf  == <<prompts, contents, max_length, prob_threshold, output_sp,
              output_ep, offset_mapping, hash_order, row, res, ipc, err,
              encodeCalls, modelCalls>>
varsOrch == <<sentence, schema, flat_schema, model_memo, fn, opc, ki,
              instances, ti, rsp, calls, done_rsp, done_calls, done_ret>>
vars     == <<varsAsm, varsInf, varsOrch>>

-----------------------------------------------------------------------------
(* Bounds *)

MaxPos == 6
MaxIds == 2

(* The two framing positions the decoder skips after the prompt. *)
FramingOffset == 2

-----------------------------------------------------------------------------
(* Generic helpers *)

Range(s) == { s[i] : i \in 1..Len(s) }

Min(a, b) == IF a < b THEN a ELSE b

RECURSIVE SortedSeq(_)
SortedSeq(S) ==
    IF S = {} THEN << >>
    ELSE LET m == CHOOSE x \in S : \A y \in S : x <= y
         IN  <<m>> \o SortedSeq(S \ {m})

-----------------------------------------------------------------------------
(* Span Assembler: get_span(start_ids, end_ids)                            *)
(* One comparison of the two cursors.  Cursors are 0-based as in Python,   *)
(* so the current elements are s[sp + 1] and e[ep + 1].                    *)

AsmRunning(s, e, sp, ep) == sp < Len(s) /\ ep < Len(e)

AsmEmitsOnlyEqual(s, e, sp, ep) == s[sp + 1] = e[ep + 1]
AsmEmitsAlways(s, e, sp, ep) == TRUE
AsmEmits(s, e, sp, ep) == s[sp + 1] <= e[ep + 1]

AsmNextStart(s, e, sp, ep) == IF s[sp + 1] <= e[ep + 1] THEN sp + 1 ELSE sp

AsmNextEnd(s, e, sp, ep) == IF s[sp + 1] >= e[ep + 1] THEN ep + 1 ELSE ep

RECURSIVE SpanSeqFrom(_, _, _, _)
SpanSeqFrom(s, e, sp, ep) ==
    IF ~AsmRunning(s, e, sp, ep) THEN << >>
    ELSE (IF AsmEmits(s, e, sp, ep) THEN << <<s[sp + 1], e[ep + 1]>> >> ELSE << >>)
         \o SpanSeqFrom(s, e, AsmNextStart(s, e, sp, ep), AsmNextEnd(s, e, sp, ep))

get_span(s, e) == Range(SpanSeqFrom(s, e, 0, 0))

IdSeqs == { SortedSeq(S) : S \in { T \in SUBSET (0..MaxPos) : Cardinality(T) <= MaxIds } }

InitAsmVars ==
    /\ start_ids \in IdSeqs
    /\ end_ids \in IdSeqs
    /\ start_pointer = 0
    /\ end_pointer = 0
    /\ emitted = << >>

IdleAsm ==
    /\ start_ids = << >>
    /\ end_ids = << >>
    /\ start_pointer = 0
    /\ end_pointer = 0
    /\ emitted = << >>

AsmCur == <<start_ids[start_pointer + 1], end_ids[end_pointer + 1]>>

AsmAdvance ==
    /\ start_pointer' = AsmNextStart(start_ids, end_ids, start_pointer, end_pointer)
    /\ end_pointer' = AsmNextEnd(start_ids, end_ids, start_pointer, end_pointer)
    /\ emitted' = IF AsmEmits(start_ids, end_ids, start_pointer, end_pointer)
                  THEN Append(emitted, AsmCur) ELSE emitted
    /\ UNCHANGED <<start_ids, end_ids>>

\* s == e: emit Span(s, e), advance both cursors
AsmEqual ==
    /\ AsmRunning(start_ids, end_ids, start_pointer, end_pointer)
    /\ AsmCur[1] = AsmCur[2]
    /\ AsmAdvance
    /\ UNCHANGED <<varsInf, varsOrch>>

\* s < e: emit Span(s, e), advance the start cursor only
AsmLess ==
    /\ AsmRunning(start_ids, end_ids, start_pointer, end_pointer)
    /\ AsmCur[1] < AsmCur[2]
    /\ AsmAdvance
    /\ UNCHANGED <<varsInf, varsOrch>>

\* s > e: drop this end, advance the end cursor only
AsmGreater ==
    /\ AsmRunning(start_ids, end_ids, start_pointer, end_pointer)
    /\ AsmCur[1] > AsmCur[2]
    /\ AsmAdvance
    /\ UNCHANGED <<varsInf, varsOrch>>

AsmDone == ~AsmRunning(start_ids, end_ids, start_pointer, end_pointer)

span_set == Range(emitted)

-----------------------------------------------------------------------------
(* Collaborators of inference(): tokenizer and model                       *)

\* Python's text[a:b] for 0 <= a, 0 <= b: both ends are clamped to len(text)
Slice(text, a, b) ==
    IF Min(a, Len(text)) >= Min(b, Len(text)) THEN << >>
    ELSE SubSeq(text, Min(a, Len(text)) + 1, Min(b, Len(text)))

NoText == <<0, 0>>

\* [CLS] prompt [SEP] content [SEP], offsets in characters of prompt + content
TokenOffsets(prompt, content) ==
    <<NoText>>
    \o [i \in 1..Len(prompt) |-> <<i - 1, i>>]
    \o <<NoText>>
    \o [j \in 1..Len(content) |-> <<Len(prompt) + j - 1, Len(prompt) + j>>]
    \o <<NoText>>

\* truncation=True, padding="max_length"
PadTo(offsets, L) ==
    [i \in 1..L |-> IF i <= Len(offsets) THEN offsets[i] ELSE NoText]

convert_inputs(prompt, content, L) == PadTo(TokenOffsets(prompt, content), L)

\* positions of one probability row strictly above the threshold, ascending
get_bool_ids_greater_than(probs, threshold) ==
    SortedSeq({ i - 1 : i \in { j \in 1..Len(probs) : probs[j] > threshold } })

-----------------------------------------------------------------------------
(* Span Decoder: the body of the row loop of inference()                   *)

\* iteration order of a Python set: fixed for the run, unspecified
RECURSIVE OrderSpans(_, _)
OrderSpans(S, order) ==
    IF S = {} THEN << >>
    ELSE LET first == CHOOSE x \in S : \A y \in S :
                 IF order = "asc"
                 THEN x[1] < y[1] \/ (x[1] = y[1] /\ x[2] <= y[2])
                 ELSE x[1] > y[1] \/ (x[1] = y[1] /\ x[2] >= y[2])
         IN  <<first>> \o OrderSpans(S \ {first}, order)

SpanFilteredOffByOne(span, prompt) == span[1] <= Len(prompt) + FramingOffset
\* if span[0] < len(prompt) + 2: continue
SpanFiltered(span, prompt) == span[1] < Len(prompt) + FramingOffset

\* offset_map[s] raises IndexError when s is not a position of the map
SpanInMap(span, offset_map) == \A s \in span[1]..span[2] : s + 1 <= Len(offset_map)

RECURSIVE SpanTextFrom(_, _, _, _)
SpanTextFrom(input_content, offset_map, s, last) ==
    IF s > last THEN << >>
    ELSE Slice(input_content, offset_map[s + 1][1], offset_map[s + 1][2])
         \o SpanTextFrom(input_content, offset_map, s + 1, last)

SpanText(span, prompt, content, offset_map) ==
    SpanTextFrom(prompt \o content, offset_map, span[1], span[2])

Surviving(spans, prompt) == SelectSeq(spans, LAMBDA sp : ~SpanFiltered(sp, prompt))

RowRaises(spans, prompt, offset_map) ==
    \E i \in 1..Len(spans) :
        ~SpanFiltered(spans[i], prompt) /\ ~SpanInMap(spans[i], offset_map)

current_span_list(spans, prompt, content, offset_map) ==
    LET kept == Surviving(spans, prompt)
    IN  [i \in 1..Len(kept) |-> SpanText(kept[i], prompt, content, offset_map)]

-----------------------------------------------------------------------------
(* inference(model, tokenizer, device, contents, prompts, max_length,     *)
(*           prob_threshold)                                               *)

MaxBatch == 2

\* (prompt, content) pairs a batch is drawn from
Pairs == { << <<"p">>, <<"a", "b">> >>, << <<"p", "q", "r">>, <<"c", "d">> >> }

\* (prob_threshold in tenths, max_length); the first is the only valid one
Configs == { <<5, 8>>, <<15, 8>>, <<-1, 8>> }

ValidConfig(threshold, maxlen) == threshold >= 0 /\ threshold <= 10 /\ maxlen > 0

Prob(hot) == IF hot THEN 9 ELSE 1

ProbRow(hotset, L) == [i \in 1..L |-> Prob((i - 1) \in hotset)]

\* what the model marks, relative to b = len(prompt) + 2, the first content token
HotPairs(b) ==
    << <<{}, {}>>, <<{b}, {b + 1}>>, <<{b - 1, b + 1}, {b + 1}>>,
       <<{b, b + 1}, {b + 1}>>, <<{b - 3, b}, {b - 1, b + 2}>>, <<{b + 2}, {b + 2}>> >>

\* an OffsetMap that breaks the collaborator contract
LongOffsets(offsets, textlen) ==
    [i \in 1..Len(offsets) |->
        IF offsets[i] = NoText THEN NoText ELSE <<offsets[i][1], offsets[i][2] + textlen>>]
ShortOffsets(offsets, keep) == SubSeq(offsets, 1, Min(keep, Len(offsets)))

Response(hot, offsets, L) ==
    [sp |-> ProbRow(hot[1], L), ep |-> ProbRow(hot[2], L), offsets |-> offsets]

\* the collaborators' possible answers for one row: every marking with the
\* contractual OffsetMap, one marking with each broken OffsetMap
RowResponses(prompt, content, L) ==
    LET b    == Len(prompt) + FramingOffset
        good == convert_inputs(prompt, content, L)
        long == LongOffsets(good, Len(prompt) + Len(content))
        short == ShortOffsets(good, b)
    IN  [i \in 1..Len(HotPairs(b)) |-> Response(HotPairs(b)[i], good, L)]
        \o << Response(<<{b}, {b + 1}>>, long, L), Response(<<{b}, {b + 1}>>, short, L) >>

NumResponses == Len(RowResponses(<< >>, << >>, 0))

InitInfVars ==
    /\ \E n \in 1..MaxBatch : \E ps \in [1..n -> Pairs] :
          /\ prompts = [i \in 1..n |-> ps[i][1]]
          /\ contents = [i \in 1..n |-> ps[i][2]]
    /\ \E c \in Configs : prob_threshold = c[1] /\ max_length = c[2]
    /\ hash_order \in {"asc", "desc"}
    /\ output_sp = << >>
    /\ output_ep = << >>
    /\ offset_mapping = << >>
    /\ row = 0
    /\ res = << >>
    /\ ipc = "entry"
    /\ err = "none"
    /\ encodeCalls = 0
    /\ modelCalls = 0

IdleInf ==
    /\ prompts = << >>
    /\ contents = << >>
    /\ prob_threshold = 5
    /\ max_length = 8
    /\ output_sp = << >>
    /\ output_ep = << >>
    /\ offset_mapping = << >>
    /\ row = 0
    /\ res = << >>
    /\ ipc = "idle"
    /\ err = "none"
    /\ encodeCalls = 0
    /\ modelCalls = 0

\* lines 41-48: convert_inputs, then the model, with no check of the
\* arguments in front of them
InfCall ==
    /\ ipc = "entry"
    /\ \E pick \in [1..Len(prompts) -> 1..NumResponses] :
         LET rs == [i \in 1..Len(prompts) |->
                       RowResponses(prompts[i], contents[i], max_length)[pick[i]]]
         IN  /\ output_sp' = [i \in 1..Len(prompts) |-> rs[i].sp]
             /\ output_ep' = [i \in 1..Len(prompts) |-> rs[i].ep]
             /\ offset_mapping' = [i \in 1..Len(prompts) |-> rs[i].offsets]
    /\ encodeCalls' = encodeCalls + 1
    /\ modelCalls' = modelCalls + 1
    /\ ipc' = "decoding"
    /\ UNCHANGED <<prompts, contents, max_length, prob_threshold, hash_order, row, res, err>>
    /\ UNCHANGED <<varsAsm, varsOrch>>

\* lines 49-50
start_ids_list == [i \in 1..Len(output_sp) |-> get_bool_ids_greater_than(output_sp[i], prob_threshold)]
end_ids_list == [i \in 1..Len(output_ep) |-> get_bool_ids_greater_than(output_ep[i], prob_threshold)]

\* zip(...) stops at the shortest of its five arguments
ZipLen ==
    Min(Len(start_ids_list), Min(Len(end_ids_list),
        Min(Len(prompts), Min(Len(contents), Len(offset_mapping)))))

\* lines 59-68 for one row: the strings of the Spans that survive the filter
RowDecode(sids, eids, prompt, content, offset_map, order) ==
    current_span_list(OrderSpans(get_span(sids, eids), order), prompt, content, offset_map)

RowSpansOfFirstRow(i) == OrderSpans(get_span(start_ids_list[1], end_ids_list[1]), hash_order)
\* line 59, and the order in which line 61 walks the set
RowSpans(i) == OrderSpans(get_span(start_ids_list[i], end_ids_list[i]), hash_order)

\* line 69: res.append(current_span_list)
ResAppend(list, x) == Append(list, x)

\* one pass of the loop of lines 54-69
InfDecodeRow ==
    /\ ipc = "decoding"
    /\ row < ZipLen
    /\ ~RowRaises(RowSpans(row + 1), prompts[row + 1], offset_mapping[row + 1])
    /\ res' = ResAppend(res, current_span_list(RowSpans(row + 1), prompts[row + 1],
                                               contents[row + 1], offset_mapping[row + 1]))
    /\ row' = row + 1
    /\ UNCHANGED <<prompts, contents, max_length, prob_threshold, hash_order, output_sp,
                   output_ep, offset_mapping, ipc, err, encodeCalls, modelCalls>>
    /\ UNCHANGED <<varsAsm, varsOrch>>

\* line 67 indexes past the end of offset_map: the call ends, res is lost
InfDecodeRaises ==
    /\ ipc = "decoding"
    /\ row < ZipLen
    /\ RowRaises(RowSpans(row + 1), prompts[row + 1], offset_mapping[row + 1])
    /\ ipc' = "raised"
    /\ err' = "IndexError"
    /\ res' = << >>
    /\ UNCHANGED <<prompts, contents, max_length, prob_threshold, hash_order, output_sp,
                   output_ep, offset_mapping, row, encodeCalls, modelCalls>>
    /\ UNCHANGED <<varsAsm, varsOrch>>

\* line 70
InfReturn ==
    /\ ipc = "decoding"
    /\ row = ZipLen
    /\ ipc' = "returned"
    /\ UNCHANGED <<prompts, contents, max_length, prob_threshold, hash_order, output_sp,
                   output_ep, offset_mapping, row, res, err, encodeCalls, modelCalls>>
    /\ UNCHANGED <<varsAsm, varsOrch>>

\* inference() as one call: the loop of lines 54-69 over the zipped rows
RECURSIVE InferenceLoop(_, _, _, _, _, _, _, _)
InferenceLoop(i, acc, cs, ps, sl, el, om, order) ==
    IF i > Min(Len(sl), Min(Len(el), Min(Len(ps), Min(Len(cs), Len(om)))))
    THEN acc
    ELSE InferenceLoop(i + 1,
                       ResAppend(acc, RowDecode(sl[i], el[i], ps[i], cs[i], om[i], order)),
                       cs, ps, sl, el, om, order)

inference(cs, ps, sp, ep, om, threshold, order) ==
    InferenceLoop(1, << >>, cs, ps,
                  [i \in 1..Len(sp) |-> get_bool_ids_greater_than(sp[i], threshold)],
                  [i \in 1..Len(ep) |-> get_bool_ids_greater_than(ep[i], threshold)],
                  om, order)

-----------------------------------------------------------------------------
(* Schema Orchestrator: event_extract_example, information_extract_example *)
(* and ner_example                                                         *)

MaxKeys == 2
MaxFlat == 2
\* positions of a row the model keeps: every prompt, the sentence and the
\* framing tokens lie inside it, what follows is padding that is never marked
RowWindow == 10

\* max_length=128 of the stage-one calls and of ner_example
StageOneMaxLength == 128
\* max_seq_len handed to both two-level examples
MaxSeqLen == 128
\* prob_threshold handed to the examples, in tenths
OrchThreshold == 6

Sentence == <<"a", "b">>

\* top-level prompts and their dependent attributes; the prompt "a" is also
\* a piece of the sentence
KeyNames == { <<"k">>, <<"a">>, <<"e">> }
SchemaAttrs(k) ==
    IF k = <<"k">> THEN << <<"t">>, <<"u">> >>
    ELSE IF k = <<"a">> THEN << <<"t">> >>
    ELSE << <<"u">> >>

DistinctSeqs(S, n) ==
    UNION { { q \in [1..m -> S] : \A i, j \in 1..m : i # j => q[i] # q[j] } : m \in 1..n }

Schemas == { [i \in 1..Len(q) |-> <<q[i], SchemaAttrs(q[i])>>] : q \in DistinctSeqs(KeyNames, MaxKeys) }

FlatNames == { <<"t">>, <<"u">>, <<"k">> }
FlatSchemas == DistinctSeqs(FlatNames, MaxFlat)

\* f"{trigger}的{a}"
ComposeReversed(instance, attribute) == attribute \o <<"的">> \o instance
Compose(instance, attribute) == instance \o <<"的">> \o attribute

IsComposed(prompt) == "的" \in Range(prompt)

\* what the model may mark for a prompt, relative to b = len(prompt) + 2:
\* nothing, "a", "a" and "b", the empty text of the closing frame token,
\* "a" and the empty text
ModelAnswers(prompt) ==
    LET b == Len(prompt) + FramingOffset
    IN  IF IsComposed(prompt)
        THEN { <<{}, {}>>, <<{b}, {b}>> }
        ELSE { <<{}, {}>>, <<{b}, {b}>>, <<{b, b + 1}, {b, b + 1}>>,
               <<{b + 2}, {b + 2}>>, <<{b, b + 2}, {b, b + 2}>> }

\* the answers of a deterministic model: one per prompt, remembered
AnswersFor(ps, memo) ==
    { ans \in [1..Len(ps) -> UNION { ModelAnswers(ps[i]) : i \in 1..Len(ps) }] :
        /\ \A i \in 1..Len(ps) : ans[i] \in ModelAnswers(ps[i])
        /\ \A i \in 1..Len(ps) : ps[i] \in DOMAIN memo => ans[i] = memo[ps[i]]
        /\ \A i, j \in 1..Len(ps) : ps[i] = ps[j] => ans[i] = ans[j] }

Remember(memo, ps, ans) ==
    [p \in DOMAIN memo \cup Range(ps) |->
        IF p \in DOMAIN memo THEN memo[p]
        ELSE ans[CHOOSE i \in 1..Len(ps) : ps[i] = p]]

\* one inference() call of an example function on the sentence
CallInference(cs, ps, L, ans, order) ==
    inference(cs, ps,
              [i \in 1..Len(ps) |-> ProbRow(ans[i][1], Min(L, RowWindow))],
              [i \in 1..Len(ps) |-> ProbRow(ans[i][2], Min(L, RowWindow))],
              [i \in 1..Len(ps) |-> convert_inputs(ps[i], cs[i], Min(L, RowWindow))],
              OrchThreshold, order)

CallRecord(stage, key, instance, cs, ps, L, result) ==
    [stage |-> stage, key |-> key, instance |-> instance, contents |-> cs, prompts |-> ps,
     max_length |-> L, prob_threshold |-> OrchThreshold, result |-> result]

\* [sentence] * n
Repeat(x, n) == [i \in 1..n |-> x]

\* Python dict: insertion ordered, assignment to a present key keeps its place
DictKeys(d) == [i \in 1..Len(d) |-> d[i][1]]
DictHas(d, k) == \E i \in 1..Len(d) : d[i][1] = k
DictGet(d, k) == d[CHOOSE i \in 1..Len(d) : d[i][1] = k][2]
DictSet(d, k, v) ==
    IF DictHas(d, k)
    THEN [i \in 1..Len(d) |-> IF d[i][1] = k THEN <<k, v>> ELSE d[i]]
    ELSE Append(d, <<k, v>>)

RECURSIVE ZipFrom(_, _, _, _)
ZipFrom(d, names, values, i) ==
    IF i < 1 THEN d
    ELSE ZipFrom(DictSet(d, names[i], values[i]), names, values, i - 1)

ZipIntoBackwards(d, names, values, i) ==
    ZipFrom(d, names, values, Min(Len(names), Len(values)))

\* for a, r in zip(names, values): d[a] = r
RECURSIVE ZipInto(_, _, _, _)
ZipInto(d, names, values, i) ==
    IF i > Min(Len(names), Len(values)) THEN d
    ELSE ZipInto(DictSet(d, names[i], values[i]), names, values, i + 1)

NoneValue == [kind |-> "None"]

InitOrchVars ==
    /\ sentence = Sentence
    /\ fn \in {"event", "ner"}
    /\ IF fn = "event"
       THEN schema \in Schemas /\ flat_schema = << >>
       ELSE schema = << >> /\ flat_schema \in FlatSchemas
    /\ model_memo = << >>
    /\ opc = "keys"
    /\ ki = 1
    /\ instances = << >>
    /\ ti = 0
    /\ rsp = << >>
    /\ calls = << >>
    /\ done_rsp = << >>
    /\ done_calls = << >>
    /\ done_ret = << >>

IdleOrch ==
    /\ sentence = << >>
    /\ schema = << >>
    /\ flat_schema = << >>
    /\ model_memo = << >>
    /\ fn = "idle"
    /\ opc = "keys"
    /\ ki = 1
    /\ instances = << >>
    /\ ti = 0
    /\ rsp = << >>
    /\ calls = << >>
    /\ done_rsp = << >>
    /\ done_calls = << >>
    /\ done_ret = << >>

CurKey == schema[ki][1]
\* schema.get(trigger_prompt)
CurAttrs == schema[ki][2]
CurInstance == instances[ti + 1]

\* the function ends: print(rsp), no return statement
Finish(next) ==
    /\ done_rsp' = (fn :> rsp) @@ done_rsp
    /\ done_calls' = (fn :> calls) @@ done_calls
    /\ done_ret' = (fn :> NoneValue) @@ done_ret
    /\ fn' = next
    /\ opc' = "keys"
    /\ ki' = 1
    /\ instances' = << >>
    /\ ti' = 0
    /\ rsp' = << >>
    /\ calls' = << >>
    /\ UNCHANGED <<sentence, schema, flat_schema, model_memo>>

\* stage one of either two-level example: one prompt, one sentence
StageOne(with_entry) ==
    /\ opc = "keys"
    /\ ki <= Len(schema)
    /\ \E ans \in AnswersFor(<<CurKey>>, model_memo) :
         LET found == CallInference(<<sentence>>, <<CurKey>>, StageOneMaxLength,
                                    ans, hash_order)
         IN  /\ instances' = found[1]
             /\ calls' = Append(calls, CallRecord(1, CurKey, << >>, <<sentence>>, <<CurKey>>,
                                                  StageOneMaxLength, found))
             /\ model_memo' = Remember(model_memo, <<CurKey>>, ans)
    /\ rsp' = IF with_entry THEN DictSet(rsp, CurKey, << >>) ELSE rsp
    /\ ti' = 0
    /\ opc' = "instances"
    /\ UNCHANGED <<sentence, schema, flat_schema, fn, ki, done_rsp, done_calls, done_ret>>

StageTwoPrompts == [i \in 1..Len(CurAttrs) |-> Compose(CurInstance, CurAttrs[i])]

\* lines 108-116
EventStageOne ==
    /\ fn = "event"
    /\ StageOne(TRUE)
    /\ UNCHANGED <<varsAsm, varsInf>>

\* lines 119-132: results go under rsp[trigger_prompt]
EventStageTwo ==
    /\ fn = "event"
    /\ opc = "instances"
    /\ ti < Len(instances)
    /\ CurInstance # << >>
    /\ \E ans \in AnswersFor(StageTwoPrompts, model_memo) :
         LET cs  == Repeat(sentence, Len(CurAttrs))
             out == CallInference(cs, StageTwoPrompts, MaxSeqLen, ans, hash_order)
         IN  /\ rsp' = DictSet(rsp, CurKey, ZipInto(DictGet(rsp, CurKey), CurAttrs, out, 1))
             /\ calls' = Append(calls, CallRecord(2, CurKey, CurInstance, cs, StageTwoPrompts,
                                                  MaxSeqLen, out))
             /\ model_memo' = Remember(model_memo, StageTwoPrompts, ans)
    /\ ti' = ti + 1
    /\ UNCHANGED <<sentence, schema, flat_schema, fn, opc, ki, instances,
                   done_rsp, done_calls, done_ret>>
    /\ UNCHANGED <<varsAsm, varsInf>>

\* line 119 / 177: an empty instance is passed over
SkipEmpty ==
    /\ opc = "instances"
    /\ ti < Len(instances)
    /\ CurInstance = << >>
    /\ ti' = ti + 1
    /\ UNCHANGED <<sentence, schema, flat_schema, model_memo, fn, opc, ki, instances,
                   rsp, calls, done_rsp, done_calls, done_ret>>

EventSkipEmpty ==
    /\ fn = "event"
    /\ SkipEmpty
    /\ UNCHANGED <<varsAsm, varsInf>>

\* the inner loop is exhausted: on to the next top-level key
NextKey ==
    /\ opc = "instances"
    /\ ti = Len(instances)
    /\ ki' = ki + 1
    /\ opc' = "keys"
    /\ instances' = << >>
    /\ ti' = 0
    /\ UNCHANGED <<sentence, schema, flat_schema, model_memo, fn, rsp, calls,
                   done_rsp, done_calls, done_ret>>

EventNextKey ==
    /\ fn = "event"
    /\ NextKey
    /\ UNCHANGED <<varsAsm, varsInf>>

\* line 133
EventFinish ==
    /\ fn = "event"
    /\ opc = "keys"
    /\ ki > Len(schema)
    /\ Finish("info")
    /\ UNCHANGED <<varsAsm, varsInf>>

\* lines 166-174
InfoStageOne ==
    /\ fn = "info"
    /\ StageOne(FALSE)
    /\ UNCHANGED <<varsAsm, varsInf>>

\* lines 177-192: results go under a fresh rsp[subject]
InfoStageTwo ==
    /\ fn = "info"
    /\ opc = "instances"
    /\ ti < Len(instances)
    /\ CurInstance # << >>
    /\ \E ans \in AnswersFor(StageTwoPrompts, model_memo) :
         LET cs  == Repeat(sentence, Len(CurAttrs))
             out == CallInference(cs, StageTwoPrompts, MaxSeqLen, ans, hash_order)
         IN  /\ rsp' = DictSet(rsp, CurInstance, ZipInto(<< >>, CurAttrs, out, 1))
             /\ calls' = Append(calls, CallRecord(2, CurKey, CurInstance, cs, StageTwoPrompts,
                                                  MaxSeqLen, out))
             /\ model_memo' = Remember(model_memo, StageTwoPrompts, ans)
    /\ ti' = ti + 1
    /\ UNCHANGED <<sentence, schema, flat_schema, fn, opc, ki, instances,
                   done_rsp, done_calls, done_ret>>
    /\ UNCHANGED <<varsAsm, varsInf>>

InfoSkipEmpty ==
    /\ fn = "info"
    /\ SkipEmpty
    /\ UNCHANGED <<varsAsm, varsInf>>

InfoNextKey ==
    /\ fn = "info"
    /\ NextKey
    /\ UNCHANGED <<varsAsm, varsInf>>

\* line 193
InfoFinish ==
    /\ fn = "info"
    /\ opc = "keys"
    /\ ki > Len(schema)
    /\ Finish("done")
    /\ UNCHANGED <<varsAsm, varsInf>>

\* lines 219-231, the whole of ner_example
NerRun ==
    /\ fn = "ner"
    /\ \E ans \in AnswersFor(flat_schema, model_memo) :
         LET sentences == Repeat(sentence, Len(flat_schema))
             out == CallInference(sentences, flat_schema, StageOneMaxLength, ans, hash_order)
         IN  /\ done_rsp' = ("ner" :> ZipInto(<< >>, flat_schema, out, 1)) @@ done_rsp
             /\ done_calls' = ("ner" :> <<CallRecord(1, << >>, << >>, sentences, flat_schema,
                                                     StageOneMaxLength, out)>>) @@ done_calls
             /\ model_memo' = Remember(model_memo, flat_schema, ans)
    /\ done_ret' = ("ner" :> NoneValue) @@ done_ret
    /\ fn' = "done"
    /\ UNCHANGED <<sentence, schema, flat_schema, opc, ki, instances, ti, rsp, calls>>
    /\ UNCHANGED <<varsAsm, varsInf>>

-----------------------------------------------------------------------------
(* Specifications *)

InitAsm == InitAsmVars /\ IdleInf /\ hash_order = "asc" /\ IdleOrch
NextAsm == AsmEqual \/ AsmLess \/ AsmGreater
SpecAsm == InitAsm /\ [][NextAsm]_vars

InitInf == IdleAsm /\ InitInfVars /\ IdleOrch
NextInf == InfCall \/ InfDecodeRow \/ InfDecodeRaises \/ InfReturn
SpecInf == InitInf /\ [][NextInf]_vars

InitOrch == IdleAsm /\ IdleInf /\ hash_order \in {"asc", "desc"} /\ InitOrchVars
NextOrch ==
    \/ EventStageOne \/ EventStageTwo \/ EventSkipEmpty \/ EventNextKey \/ EventFinish
    \/ InfoStageOne \/ InfoStageTwo \/ InfoSkipEmpty \/ InfoNextKey \/ InfoFinish
    \/ NerRun
SpecOrch == InitOrch /\ [][NextOrch]_vars

Init == InitInf
Next == NextInf
Spec == SpecInf

-----------------------------------------------------------------------------
(* Properties of the Span Assembler (SpecAsm) *)

StartsBeforeEnds == \A i \in 1..Len(emitted) : emitted[i][1] <= emitted[i][2]

EndsUsedOnce ==
    \A i, j \in 1..Len(emitted) : i # j => emitted[i][2] # emitted[j][2]

StartsUsedOnce ==
    \A i, j \in 1..Len(emitted) : i # j => emitted[i][1] # emitted[j][1]

ScenarioA == start_ids = <<2, 5>> /\ end_ids = <<5, 6>> /\ AsmDone

-----------------------------------------------------------------------------
(* Properties of inference() (SpecInf) *)

RowSpanSet(i) == get_span(start_ids_list[i], end_ids_list[i])

KeptSpans(i) == { sp \in RowSpanSet(i) : sp[1] >= Len(prompts[i]) + FramingOffset }

\* C1: a Span contributes a string to its pair's output if and only if
\* start_index >= len(prompt) + 2; the boundary start_index = len(prompt) + 2
\* is kept.  Each decoded row holds exactly the texts of its kept Spans.
C1_DecoderFiltering ==
    \A i \in 1..Len(res) :
        LET kept == OrderSpans(KeptSpans(i), hash_order)
        IN  /\ Len(res[i]) = Cardinality(KeptSpans(i))
            /\ \A k \in 1..Len(res[i]) :
                  res[i][k] = SpanText(kept[k], prompts[i], contents[i], offset_mapping[i])

\* Scenario B (prompt of 3 characters, Span(2,4) dropped, Span(5,7) kept)
\* next to a row whose only Span starts exactly at len(prompt) + 2
C1_Witness ==
    /\ ipc = "returned"
    /\ \E i \in 1..Len(res) :
          /\ Len(prompts[i]) = 3
          /\ RowSpanSet(i) = { <<2, 4>>, <<5, 7>> }
          /\ res[i] = << <<"c", "d">> >>
    /\ \E i \in 1..Len(res) :
          /\ RowSpanSet(i) = { <<Len(prompts[i]) + 2, Len(prompts[i]) + 3>> }
          /\ Len(res[i]) = 1

IndexPermutations(n) == { f \in [1..n -> 1..n] : \A i, j \in 1..n : i # j => f[i] # f[j] }

Permuted(list, f) == [i \in 1..Len(list) |-> list[f[i]]]

\* C2: a returning call yields one list per pair, the i-th decoded from the
\* i-th rows, OffsetMap, prompt and content only, and permuting the pairs
\* permutes the lists the same way.
C2_OrderPreserved ==
    ipc = "returned" =>
        /\ Len(res) = Len(prompts)
        /\ \A i \in 1..Len(res) :
              res[i] = RowDecode(start_ids_list[i], end_ids_list[i], prompts[i],
                                 contents[i], offset_mapping[i], hash_order)
        /\ \A f \in IndexPermutations(Len(prompts)) :
              inference(Permuted(contents, f), Permuted(prompts, f),
                        Permuted(output_sp, f), Permuted(output_ep, f),
                        Permuted(offset_mapping, f), prob_threshold, hash_order)
              = Permuted(res, f)

C2_Witness ==
    /\ ipc = "returned"
    /\ Len(res) = 2
    /\ res[1] # res[2]
    /\ res[1] # << >>
    /\ res[2] # << >>

\* C7 as claimed: with a threshold outside [0,1] or max_length <= 0 the call
\* ends in ConfigError and neither the tokenizer nor the model has been
\* invoked.
C7_FailFast ==
    ~ValidConfig(prob_threshold, max_length) =>
        /\ encodeCalls = 0
        /\ modelCalls = 0
        /\ ipc # "returned"
        /\ (ipc = "raised" => err = "ConfigError")

\* a surviving Span reads an OffsetMap entry that is missing or that reaches
\* past the end of prompt + content
BadOffsetRead ==
    \E i \in 1..ZipLen : \E sp \in KeptSpans(i) : \E s \in sp[1]..sp[2] :
        \/ s + 1 > Len(offset_mapping[i])
        \/ offset_mapping[i][s + 1][2] > Len(prompts[i]) + Len(contents[i])

\* C8 as claimed: a call whose surviving Spans read a missing or
\* out-of-bounds OffsetMap entry fails as a whole with OffsetError and returns
\* nothing; any other call decodes every row.
C8_AtomicOffsetError ==
    /\ (ipc = "returned" => ~BadOffsetRead /\ Len(res) = Len(prompts))
    /\ (ipc = "raised" /\ modelCalls > 0 =>
          BadOffsetRead /\ err = "OffsetError" /\ res = << >>)

-----------------------------------------------------------------------------
(* Properties of the Schema Orchestrator (SpecOrch) *)

TwoLevel == {"event", "info"}

KeyOf(j) == schema[j][1]
AttrsOf(j) == schema[j][2]

StageOneOf(log, k) == SelectSeq(log, LAMBDA c : c.stage = 1 /\ c.key = k)
StageTwoOf(log, k) == SelectSeq(log, LAMBDA c : c.stage = 2 /\ c.key = k)
StageTwoLog(log) == SelectSeq(log, LAMBDA c : c.stage = 2)
NonEmpty(found) == SelectSeq(found, LAMBDA x : x # << >>)

\* the non-empty instances some other key than the j-th found
FoundByOthers(log, j) ==
    UNION { Range(NonEmpty(StageOneOf(log, KeyOf(o))[1].result[1])) :
            o \in { x \in 1..Len(schema) : x # j /\ Len(StageOneOf(log, KeyOf(x))) = 1 } }

\* the call-count part of C3 for the j-th key of a finished example
CascadeCalls(log, j) ==
    LET one  == StageOneOf(log, KeyOf(j))
        two  == StageTwoOf(log, KeyOf(j))
        live == NonEmpty(one[1].result[1])
    IN  /\ Len(one) = 1
        /\ Len(two) = Len(live)
        /\ \A m \in 1..Len(two) :
              /\ two[m].prompts =
                    [i \in 1..Len(AttrsOf(j)) |-> live[m] \o <<"的">> \o AttrsOf(j)[i]]
              /\ two[m].contents = [i \in 1..Len(AttrsOf(j)) |-> sentence]
        /\ (one[1].result[1] = << >> => Len(two) = 0)

\* C3 as claimed: per key, as many stage-two calls as non-empty stage-one
\* instances, each one batch of len(attributes) prompts "{instance}的{attribute}"
\* in attribute order on the same sentence; an empty instance adds no entry;
\* a key whose stage one returns [] is absent or empty in the final result.
C3_CascadeCallCount ==
    \A f \in DOMAIN done_calls \cap TwoLevel : \A j \in 1..Len(schema) :
        /\ CascadeCalls(done_calls[f], j)
        /\ ~DictHas(done_rsp[f], << >>)
        /\ (StageOneOf(done_calls[f], KeyOf(j))[1].result[1] = << >> =>
              \/ ~DictHas(done_rsp[f], KeyOf(j))
              \/ DictGet(done_rsp[f], KeyOf(j)) = << >>)

\* C3 amended: the same, except that a key whose stage one returns [] adds
\* nothing of its own to the final result: event_extract_example leaves it
\* mapped to the empty mapping, information_extract_example creates no entry
\* for it, and an entry of that name exists only when another key found an
\* instance whose text is the key's name.
C3_CascadeCallCountOwnEntry ==
    \A f \in DOMAIN done_calls \cap TwoLevel : \A j \in 1..Len(schema) :
        /\ CascadeCalls(done_calls[f], j)
        /\ ~DictHas(done_rsp[f], << >>)
        /\ (StageOneOf(done_calls[f], KeyOf(j))[1].result[1] = << >> =>
              IF f = "event"
              THEN DictHas(done_rsp[f], KeyOf(j)) /\ DictGet(done_rsp[f], KeyOf(j)) = << >>
              ELSE DictHas(done_rsp[f], KeyOf(j)) =>
                     KeyOf(j) \in FoundByOthers(done_calls[f], j))

\* both examples are over; one key found two instances, one of them empty,
\* another key found nothing
C3_Witness ==
    /\ fn = "done"
    /\ "info" \in DOMAIN done_calls
    /\ \E j \in 1..Len(schema) :
          LET found == StageOneOf(done_calls["info"], KeyOf(j))[1].result[1]
          IN  /\ Len(found) = 2
              /\ << >> \in Range(found)
              /\ Len(StageTwoOf(done_calls["info"], KeyOf(j))) = 1
    /\ \E j \in 1..Len(schema) :
          /\ StageOneOf(done_calls["info"], KeyOf(j))[1].result[1] = << >>
          /\ Len(StageTwoOf(done_calls["info"], KeyOf(j))) = 0

\* C4 as claimed: ner_example issues one call of N (sentence, attribute)
\* pairs on the same sentence and returns to its caller the mapping of the N
\* names, in schema order, to the N result lists.
C4_NerReturnsMapping ==
    "ner" \in DOMAIN done_ret =>
        LET log == done_calls["ner"]
        IN  /\ Len(log) = 1
            /\ log[1].prompts = flat_schema
            /\ log[1].contents = [i \in 1..Len(flat_schema) |-> sentence]
            /\ done_ret["ner"] =
                  [kind |-> "dict",
                   value |-> [i \in 1..Len(flat_schema) |->
                                 <<flat_schema[i], log[1].result[i]>>]]

RECURSIVE Dedup(_)
Dedup(q) ==
    IF q = << >> THEN << >>
    ELSE LET front == Dedup(SubSeq(q, 1, Len(q) - 1))
         IN  IF q[Len(q)] \in Range(front) THEN front ELSE Append(front, q[Len(q)])

AttrsOfKey(k) == schema[CHOOSE j \in 1..Len(schema) : schema[j][1] = k][2]

Zipped(names, values) == [i \in 1..Len(names) |-> <<names[i], values[i]>>]

\* what information_extract_example builds: every non-empty instance, in
\* the order first found, mapped to the attribute -> spans of its last call
InfoStructure(log) ==
    LET two   == StageTwoLog(log)
        names == Dedup([m \in 1..Len(two) |-> two[m].instance])
        last(x) == two[CHOOSE m \in 1..Len(two) :
                          /\ two[m].instance = x
                          /\ \A n \in 1..Len(two) : two[n].instance = x => n <= m]
    IN  [i \in 1..Len(names) |->
            <<names[i], Zipped(AttrsOfKey(last(names[i]).key), last(names[i]).result)>>]

BothDone == fn = "done" /\ "event" \in DOMAIN done_rsp /\ "info" \in DOMAIN done_rsp

\* C5 as claimed: on the same sentence, schema and model answers the two
\* examples issue the same calls and build the same result structure, each
\* instance's attribute -> spans stored under the instance.
C5_SameCallsSameStructure ==
    BothDone =>
        /\ done_calls["event"] = done_calls["info"]
        /\ done_rsp["event"] = done_rsp["info"]
        /\ done_rsp["event"] = InfoStructure(done_calls["event"])

\* a key with two instances whose stage-two results differ: the subject
\* example keeps both under the instances' texts, the trigger example keeps
\* under the schema key only what the later instance gave
C5_Witness ==
    /\ BothDone
    /\ \E j \in 1..Len(schema) :
          LET two == StageTwoOf(done_calls["event"], KeyOf(j))
          IN  /\ Len(two) = 2
              /\ two[1].instance # two[2].instance
              /\ two[1].result # two[2].result
              /\ DictGet(done_rsp["event"], KeyOf(j)) = Zipped(AttrsOf(j), two[2].result)
              /\ DictGet(done_rsp["info"], two[1].instance) = Zipped(AttrsOf(j), two[1].result)
              /\ DictGet(done_rsp["info"], two[2].instance) = Zipped(AttrsOf(j), two[2].result)

\* the calls of the example f so far
LogOf(f) ==
    IF f \in DOMAIN done_calls THEN done_calls[f] ELSE IF fn = f THEN calls ELSE << >>

\* the state of the j-th top-level key in the example f
KeyState(f, j) ==
    LET called == Len(StageTwoOf(LogOf(f), KeyOf(j))) > 0
    IN  IF f \in DOMAIN done_calls \/ (fn = f /\ j < ki)
        THEN (IF called THEN "Aggregated" ELSE "Empty")
        ELSE IF fn # f \/ j > ki \/ opc = "keys" THEN "NotStarted"
        ELSE IF called THEN "StageTwoCalled" ELSE "StageOneCalled"

KeyMoves ==
    { <<"NotStarted", "StageOneCalled">>, <<"StageOneCalled", "Empty">>,
      <<"StageOneCalled", "StageTwoCalled">>, <<"StageTwoCalled", "Aggregated">> }

\* the n-th stage-one call is the one of the n-th key, and every stage-two
\* call belongs to the key of the latest stage-one call
CallsInKeyOrder(log) ==
    \A i \in 1..Len(log) :
        LET before == Len(StageTwoLog(SubSeq(log, 1, i)))
        IN  IF log[i].stage = 1
            THEN i - before <= Len(schema) /\ log[i].key = KeyOf(i - before)
            ELSE i - before >= 1 /\ log[i].key = KeyOf(i - before)

ResultInSchemaOrder(f) ==
    IF f = "event"
    THEN /\ DictKeys(done_rsp[f]) = [j \in 1..Len(schema) |-> KeyOf(j)]
         /\ \A j \in 1..Len(schema) :
               DictKeys(DictGet(done_rsp[f], KeyOf(j))) \in { << >>, AttrsOf(j) }
    ELSE /\ DictKeys(done_rsp[f]) =
               Dedup([m \in 1..Len(StageTwoLog(done_calls[f])) |->
                         StageTwoLog(done_calls[f])[m].instance])
         /\ \A i \in 1..Len(done_rsp[f]) :
               \E j \in 1..Len(schema) : DictKeys(done_rsp[f][i][2]) = AttrsOf(j)

C6_Ordering ==
    \A f \in TwoLevel :
        /\ CallsInKeyOrder(LogOf(f))
        /\ f \in DOMAIN done_calls =>
              /\ \A j \in 1..Len(schema) :
                    /\ Len(StageOneOf(done_calls[f], KeyOf(j))) = 1
                    /\ KeyState(f, j) \in {"Empty", "Aggregated"}
              /\ ResultInSchemaOrder(f)

C6_Moves ==
    \A f \in TwoLevel : \A j \in 1..Len(schema) :
        \/ KeyState(f, j)' = KeyState(f, j)
        \/ <<KeyState(f, j), KeyState(f, j)'>> \in KeyMoves

\* the position of the running example in its loops: example, key, phase of
\* the key, instance
C6_Advances ==
    \/ fn' # fn /\ <<fn, fn'>> \in { <<"event", "info">>, <<"info", "done">>, <<"ner", "done">> }
    \/ fn' = fn /\ ki' > ki
    \/ fn' = fn /\ ki' = ki /\ opc = "keys" /\ opc' = "instances"
    \/ fn' = fn /\ ki' = ki /\ opc' = opc /\ ti' > ti

C6_Bounded ==
    /\ ki \in 1..(Len(schema) + 1)
    /\ ti \in 0..Len(instances)

\* an unfinished example has a step to take: a model answer exists for the
\* call that is due, or a loop bookkeeping step is due
C6_NotStuck ==
    fn # "done" =>
        \/ /\ fn \in TwoLevel
           /\ opc = "keys"
           /\ ki <= Len(schema) => AnswersFor(<<CurKey>>, model_memo) # {}
        \/ /\ fn \in TwoLevel
           /\ opc = "instances"
           /\ (ti < Len(instances) /\ CurInstance # << >>) =>
                  AnswersFor(StageTwoPrompts, model_memo) # {}
        \/ /\ fn = "ner"
           /\ AnswersFor(flat_schema, model_memo) # {}

====
